---- MODULE Spec2Model ----
(***************************************************************************)
(* Pipe.js (src/pipe.js): an async task queue.  Tasks are filled in at one *)
(* end, fetch requests are made at the other end, and _start pairs the     *)
(* head task with the head waiter while fewer than _c pairs are running.   *)
(*                                                                         *)
(* The pipe's own fields are _c, _t, _w and _r.  The remaining variables   *)
(* record what the pipe did to the user's functions (which task function   *)
(* was invoked with which waiter, which continuation was invoked how       *)
(* often) and the activation record of a flush call, whose loop invokes    *)
(* user code at every iteration.                                           *)
(*                                                                         *)
(* User code is free: a task function may call producerDone at once or     *)
(* later, never, or more than once, and so may a callback with its         *)
(* consumerDone.  fill, fetch and consumerDone end with their call of      *)
(* _start (reset and count invoke no user code), so what user code does    *)
(* inside them is the same as what it does after them; flush is the one    *)
(* method with work left after user code returns, and its iterations are   *)
(* steps of their own.  Inside                                             *)
(* a flush call user code invokes continuations only: it calls no pipe     *)
(* method before flush has returned.                                       *)
(***************************************************************************)
EXTENDS Integers, Sequences, FiniteSets, TLC

(* ---- bounds of the model ---- *)
MaxCalls == 6        \* tasks supplied, fetch calls and reset calls in all
MaxInitTasks == 1    \* tasks passed to the constructor
MaxNoArgs == 1       \* tasks supplied as an object without args
MaxRepeats == 1      \* invocations of a continuation after its first, in all
MaxConcurrency == 2  \* largest finite concurrency argument

(* ---- values ---- *)
\* JavaScript's Infinity as a concurrency value; only compared with _r.
Infinity == -1

\* A bug: the test of _start written r <= c.
LessOrEqual(r, c) == IF c = Infinity THEN TRUE ELSE r <= c

\* r < c of _start, with c possibly Infinity.
Less(r, c) == IF c = Infinity THEN TRUE ELSE r < c

\* Arguments the constructor is called with: 0 stands for every falsy value.
ConcurrencyArgs == (0 .. MaxConcurrency) \cup {Infinity}

\* A task is {fn, cxt, args}: id names fn (the arrival number of the task),
\* args tells whether the object has an args array.
Task(n, hasArgs) == [id |-> n, args |-> hasArgs]

\* A waiter is {cb, cxt}: id is the number of the fetch call that made it,
\* cb names the callback ("fetch": the one of that fetch call, "flush": the
\* one given to flush), and seen is the number of tasks supplied before the
\* flush call that made it (0 for fetch).
Waiter(n, cb, seen) == [id |-> n, cb |-> cb, seen |-> seen]

\* What [].shift() gives on an empty array.
UndefinedTask == [id |-> 0, args |-> FALSE]
UndefinedWaiter == [id |-> 0, cb |-> "undefined", seen |-> 0]

\* The value task n passes to its producerDone.
Result(task) == task.id

VARIABLES
  _c,       \* this._c: maximum number of concurrent tasks
  _t,       \* this._t: pending tasks queue
  _w,       \* this._w: queue of callbacks awaiting tasks
  _r,       \* this._r: number of running tasks
  runs,     \* the calls of _run so far, in order: the pair, whether the
            \* task function was invoked, how often its producerDone and
            \* its consumerDone were invoked
  calls,    \* the callback invocations made so far: waiter and value
  frame,    \* activation record of the flush call in progress
  nFill,    \* tasks supplied so far (constructor and fill)
  nNoArgs,  \* tasks supplied so far as an object without args
  repeats,  \* invocations so far of a continuation invoked before
  nFetch,   \* fetch calls so far
  nReset,   \* reset calls so far
  nForced,  \* reset calls so far with a truthy force
  dropped   \* ids of the tasks and waiters removed by reset

vars == <<_c, _t, _w, _r, runs, calls, frame, nFill, nNoArgs, repeats, nFetch,
          nReset, nForced, dropped>>

(* ---- the pipe's private methods, as functions of the pipe's state ---- *)
\* The part of the state that _start and _run read and write.
State(t, w, r, rs) == [t |-> t, w |-> w, r |-> r, runs |-> rs]

Cur == State(_t, _w, _r, runs)

\* Array.prototype.shift: the removed head (undefined on an empty array).
ShiftTask(q) == IF q = <<>> THEN UndefinedTask ELSE Head(q)

\* A bug: pop() where shift() is meant.
PopWaiter(q) == IF q = <<>> THEN UndefinedWaiter ELSE q[Len(q)]

ShiftWaiter(q) == IF q = <<>> THEN UndefinedWaiter ELSE Head(q)

Rest(q) == IF q = <<>> THEN <<>> ELSE Tail(q)

\* A bug: _run without its ++this._r.
RunUncounted(s, task, done) ==
  [s EXCEPT !.runs = Append(@, [task |-> task, done |-> done,
                                invoked |-> task.args, pd |-> 0, cd |-> 0])]

\* _run(task, done): ++this._r, then task.fn.apply(..., task.args.concat(..)).
\* A task object without args makes task.args.concat throw a TypeError
\* after the increment, before task.fn is called.
Run(s, task, done) ==
  [s EXCEPT !.r = @ + 1,
            !.runs = Append(@, [task |-> task, done |-> done,
                                invoked |-> task.args, pd |-> 0, cd |-> 0])]

\* A bug: _start without the test of the waiter queue.
CanStartNoWaiter(s, c) == Len(s.t) > 0 /\ Less(s.r, c)

\* A bug: _start without the test of _r against _c.
CanStartUnbounded(s, c) == Len(s.t) > 0 /\ Len(s.w) > 0

\* The condition of _start.
CanStart(s, c) == Len(s.t) > 0 /\ Len(s.w) > 0 /\ Less(s.r, c)

\* _start(): at most one pair per call.
Start(s, c) ==
  IF CanStart(s, c)
  THEN Run([s EXCEPT !.t = Rest(@), !.w = Rest(@)],
           ShiftTask(s.t), ShiftWaiter(s.w))
  ELSE s

\* TRUE when going from s to s2 some _run threw.
Threw(s, s2) ==
  Len(s2.runs) > Len(s.runs) /\ ~ s2.runs[Len(s2.runs)].invoked

\* TRUE when going from s to s2 a task function was invoked.
Invoked(s, s2) ==
  Len(s2.runs) > Len(s.runs) /\ s2.runs[Len(s2.runs)].invoked

Install(s) ==
  /\ _t' = s.t
  /\ _w' = s.w
  /\ _r' = s.r
  /\ runs' = s.runs

(* ---- flush's activation record ---- *)
\* pending is flush's local variable; user tells that the last iteration
\* invoked a task function, cont that a continuation was invoked during the
\* call; P, W, R, runs0 and fetch0 are the lengths of _t and _w, the value
\* of _r and the numbers of _run and fetch calls when flush was called.
NoFrame == [active |-> FALSE, pending |-> 0, user |-> FALSE, cont |-> FALSE,
            P |-> 0, W |-> 0, R |-> 0, runs0 |-> 0, fetch0 |-> 0]

\* User code may invoke a continuation when no pipe method is on the stack
\* or when the flush in progress has just invoked a task function.
UserCodeRuns == ~ frame.active \/ frame.user

\* A pipe method may be called when no flush is in progress.
Idle == ~ frame.active

\* The calls made so far that the model bounds.
Calls == nFill + nFetch + nReset

(* ---- construction ---- *)
Init ==
  \E arg \in ConcurrencyArgs, k \in 0 .. MaxInitTasks,
     no \in 0 .. MaxNoArgs :
    /\ no <= k
    /\ _c = IF arg = 0 THEN 1 ELSE arg
    /\ _t = [i \in 1 .. k |-> Task(i, i > no)]
    /\ _w = <<>>
    /\ _r = 0
    /\ runs = <<>>
    /\ calls = {}
    /\ frame = NoFrame
    /\ nFill = k
    /\ nNoArgs = no
    /\ repeats = 0
    /\ nFetch = 0
    /\ nReset = 0
    /\ nForced = 0
    /\ dropped = [tasks |-> {}, waiters |-> {}]

(* ---- public methods ---- *)
\* fill(fn, cxt, ...): push the task, then _start().
FillOn(s, task, c) == Start([s EXCEPT !.t = Append(@, task)], c)

Fill(hasArgs) ==
  /\ Idle
  /\ Calls < MaxCalls
  /\ ~ hasArgs => nNoArgs < MaxNoArgs
  /\ Install(FillOn(Cur, Task(nFill + 1, hasArgs), _c))
  /\ nFill' = nFill + 1
  /\ nNoArgs' = IF hasArgs THEN nNoArgs ELSE nNoArgs + 1
  /\ UNCHANGED <<_c, calls, frame, repeats, nFetch, nReset, nForced, dropped>>

\* fetch(cb, cxt): push the waiter, then _start().
FetchOn(s, done, c) == Start([s EXCEPT !.w = Append(@, done)], c)

Fetch ==
  /\ Idle
  /\ Calls < MaxCalls
  /\ Install(FetchOn(Cur, Waiter(nFetch + 1, "fetch", 0), _c))
  /\ nFetch' = nFetch + 1
  /\ UNCHANGED <<_c, calls, frame, nFill, nNoArgs, repeats, nReset, nForced,
                 dropped>>

\* flush(cb, cxt): pending = this._t.length - this._w.length, then
\* while (pending--) this.fetch(cb, cxt).  The call is entered here; every
\* iteration of the loop is a step of its own, because the fetch it makes
\* may invoke a task function, which may invoke its continuation at once.
\* A positive pending is admitted only when the model has room for all of
\* its fetch calls; a negative one never reaches 0.
\* A bug: every queued task counted, the waiters already queued ignored.
PendingAllTasks(t, w) == Len(t)

Pending(t, w) == Len(t) - Len(w)

FlushBegin ==
  /\ Idle
  /\ Pending(_t, _w) > 0 => Calls + Pending(_t, _w) <= MaxCalls
  /\ frame' = [active |-> TRUE, pending |-> Pending(_t, _w), user |-> FALSE,
               cont |-> FALSE, P |-> Len(_t), W |-> Len(_w), R |-> _r,
               runs0 |-> Len(runs), fetch0 |-> nFetch]
  /\ UNCHANGED <<_c, _t, _w, _r, runs, calls, nFill, nNoArgs, repeats, nFetch,
                 nReset, nForced, dropped>>

\* A bug: while (--pending), which stops one iteration early.
LoopTestPreDecrement(pending) == pending # 1

\* The loop test of flush: pending-- is truthy for every value but 0.
LoopTest(pending) == pending # 0

\* One iteration of flush's loop.  A TypeError thrown by _run leaves flush
\* through the exception.
FlushStep ==
  /\ frame.active
  /\ LoopTest(frame.pending)
  /\ Calls < MaxCalls
  /\ LET s2 == FetchOn(Cur, Waiter(nFetch + 1, "flush", nFill), _c) IN
       /\ Install(s2)
       /\ frame' = IF Threw(Cur, s2) THEN NoFrame
                   ELSE [frame EXCEPT !.pending = @ - 1,
                                      !.user = Invoked(Cur, s2)]
  /\ nFetch' = nFetch + 1
  /\ UNCHANGED <<_c, calls, nFill, nNoArgs, repeats, nReset, nForced, dropped>>

\* The loop of flush has ended: return this.
FlushReturn ==
  /\ frame.active
  /\ ~ LoopTest(frame.pending)
  /\ frame' = NoFrame
  /\ UNCHANGED <<_c, _t, _w, _r, runs, calls, nFill, nNoArgs, repeats, nFetch,
                 nReset, nForced, dropped>>

\* A bug: only the task queue emptied.
ResetTasksOnly(s, force) ==
  [s EXCEPT !.t = <<>>, !.r = IF force THEN 0 ELSE @]

\* A bug: force ignored, _r left as it is.
ResetIgnoresForce(s, force) == [s EXCEPT !.t = <<>>, !.w = <<>>]

\* reset(force): empty both queues; _r = 0 when force is truthy.
ResetOn(s, force) ==
  [s EXCEPT !.t = <<>>, !.w = <<>>, !.r = IF force THEN 0 ELSE @]

Ids(q) == {q[i].id : i \in 1 .. Len(q)}

Reset(force) ==
  /\ Idle
  /\ Calls < MaxCalls
  /\ Install(ResetOn(Cur, force))
  /\ nReset' = nReset + 1
  /\ nForced' = IF force THEN nForced + 1 ELSE nForced
  /\ dropped' = [tasks |-> dropped.tasks \cup Ids(_t),
                 waiters |-> dropped.waiters \cup Ids(_w)]
  /\ UNCHANGED <<_c, calls, frame, nFill, nNoArgs, repeats, nFetch>>

\* A bug: the running pairs never counted.
CountValueQueueOnly(alt, excludeRunning) == IF alt THEN Len(_w) ELSE Len(_t)

\* count(alt, excludeRunning).
CountValue(alt, excludeRunning) ==
  (IF alt THEN Len(_w) ELSE Len(_t)) + (IF excludeRunning THEN 0 ELSE _r)

\* count reads the queues and _r and writes nothing.
Count(alt, excludeRunning) ==
  /\ Idle
  /\ CountValue(alt, excludeRunning) \in Int
  /\ UNCHANGED vars

(* ---- the continuations handed to user code ---- *)
\* What a flush in progress becomes when user code it has invoked goes on:
\* a TypeError thrown by a nested _run leaves flush unless user code
\* catches it on the way.
FrameAfter(threw, caught) ==
  IF ~ frame.active THEN frame
  ELSE IF threw /\ ~ caught THEN NoFrame
  ELSE [frame EXCEPT !.cont = TRUE]

\* The continuation appended to the arguments of task k (producerDone):
\* done.cb.apply(done.cxt || this, arguments + [consumerDone]).
\* On an undefined done, done.cb throws before any callback is called.
\* A bug: the slot is released when the task is done (--this._r and the
\* next start in producerDone), not when the consumer is.
ProducerDoneReleases(s, k, c) ==
  Start([s EXCEPT !.r = @ - 1, !.runs[k].pd = @ + 1], c)

\* It touches neither the queues nor _r.
ProducerDoneOn(s, k, c) == [s EXCEPT !.runs[k].pd = @ + 1]

ProducerDone(k) ==
  /\ UserCodeRuns
  /\ k <= Len(runs)
  /\ runs[k].invoked
  /\ runs[k].pd > 0 => repeats < MaxRepeats
  /\ repeats' = IF runs[k].pd > 0 THEN repeats + 1 ELSE repeats
  /\ Install(ProducerDoneOn(Cur, k, _c))
  /\ calls' = IF runs[k].done = UndefinedWaiter THEN calls
              ELSE calls \cup {[done |-> runs[k].done,
                                val |-> Result(runs[k].task)]}
  /\ frame' = FrameAfter(FALSE, FALSE)
  /\ UNCHANGED <<_c, nFill, nNoArgs, nFetch, nReset, nForced, dropped>>

\* The continuation appended to the callback's arguments (consumerDone):
\* A bug: consumerDone without its this._start().
ConsumerDoneNoStart(s, k, c) == [s EXCEPT !.r = @ - 1, !.runs[k].cd = @ + 1]

\* A bug: _r clamped at 0, a completion that finds no slot taken ignored.
ConsumerDoneClamped(s, k, c) ==
  Start([s EXCEPT !.r = IF @ > 0 THEN @ - 1 ELSE @, !.runs[k].cd = @ + 1], c)

\* --this._r; this._start().
ConsumerDoneOn(s, k, c) ==
  Start([s EXCEPT !.r = @ - 1, !.runs[k].cd = @ + 1], c)

ConsumerDone(k) ==
  /\ UserCodeRuns
  /\ k <= Len(runs)
  /\ runs[k].pd > 0
  /\ runs[k].cd > 0 => repeats < MaxRepeats
  /\ repeats' = IF runs[k].cd > 0 THEN repeats + 1 ELSE repeats
  /\ LET s2 == ConsumerDoneOn(Cur, k, _c) IN
       /\ Install(s2)
       /\ \E caught \in BOOLEAN :
            frame' = FrameAfter(Threw(Cur, s2), caught)
  /\ UNCHANGED <<_c, calls, nFill, nNoArgs, nFetch, nReset, nForced, dropped>>

\* The numbers a call of _run can have within the bounds.
RunIds == 1 .. MaxCalls

Next ==
  \/ \E hasArgs \in BOOLEAN : Fill(hasArgs)
  \/ Fetch
  \/ FlushBegin
  \/ FlushStep
  \/ FlushReturn
  \/ \E force \in BOOLEAN : Reset(force)
  \/ \E alt \in BOOLEAN, excludeRunning \in BOOLEAN : Count(alt, excludeRunning)
  \/ \E k \in RunIds : ProducerDone(k)
  \/ \E k \in RunIds : ConsumerDone(k)

Spec == Init /\ [][Next]_vars

(* ---- what the claims speak of ---- *)
\* The pairs whose task function was invoked and whose consumerDone was not.
InFlight == {k \in 1 .. Len(runs) : runs[k].invoked /\ runs[k].cd = 0}

\* No reset with a truthy force was made.
NoForce == nForced = 0

\* No pair's consumerDone was invoked more than once.
SingleAck == \A k \in 1 .. Len(runs) : runs[k].cd <= 1

(* ---- C1 ---- *)
\* C1: without reset, the k-th call of _run pairs the k-th task supplied
\* with the waiter of the k-th fetch call, for every concurrency, and every
\* callback invocation hands the waiter of the k-th fetch call the result of
\* the k-th task, in whatever order the running tasks call producerDone.
C1_FifoPairing ==
  nReset = 0 =>
    /\ \A k \in 1 .. Len(runs) :
         /\ runs[k].task.id = k
         /\ runs[k].done.id = k
         /\ runs[k].pd > 0 =>
              [done |-> runs[k].done, val |-> Result(runs[k].task)] \in calls
    /\ \A call \in calls :
         /\ call.done.id \in 1 .. Len(runs)
         /\ call.val = Result(runs[call.done.id].task)
         /\ call.done = runs[call.done.id].done

\* Two pairs run at once and the second has called producerDone before the
\* first, behind a fetch that had to wait for its task.
C1_Witness ==
  /\ nReset = 0
  /\ Len(runs) >= 2
  /\ runs[2].pd > 0
  /\ runs[1].pd = 0
  /\ runs[1].invoked
  /\ Len(_w) > 0
  /\ \E call \in calls : call.done.id = 2 /\ call.val = 2

(* ---- C2 ---- *)
\* C2: the concurrency is never 0 (a falsy argument gives 1), and as long
\* as no reset is forced and no pair's consumerDone is invoked twice, at
\* most _c pairs are between the invocation of the task function and the
\* invocation of consumerDone; with _c = 1 every pair before the last one
\* started has had its consumerDone invoked.
C2_ConcurrencyBound ==
  /\ _c # 0
  /\ (NoForce /\ SingleAck) =>
       /\ Less(Cardinality(InFlight), _c) \/ Cardinality(InFlight) = _c
       /\ _c = 1 => \A k \in 1 .. Len(runs) - 1 : runs[k].cd = 1

\* Concurrency 2 is used up by two pairs in flight while a third pair waits
\* in the queues.
C2_Witness ==
  /\ _c = 2
  /\ NoForce /\ SingleAck
  /\ Cardinality(InFlight) = 2
  /\ Len(_t) > 0 /\ Len(_w) > 0

(* ---- C3 ---- *)
\* C3: with concurrency 1 and no reset, every callback invocation hands the
\* waiter of the i-th fetch call the result of the i-th task, and the
\* callbacks are invoked in fetch call order: the callback of a later pair
\* is never invoked while an earlier pair's task is still at work.
C3_InOrderDelivery ==
  (_c = 1 /\ nReset = 0) =>
    /\ \A call \in calls : call.val = call.done.id
    /\ \A i \in 1 .. Len(runs), j \in 1 .. Len(runs) :
         (i < j /\ runs[i].invoked /\ runs[j].pd > 0) => runs[i].pd > 0

\* The same with every continuation invoked at most once: the order the
\* code keeps when no consumer acknowledges twice.
C3_InOrderSingle ==
  repeats = 0 => C3_InOrderDelivery

(* ---- C4 ---- *)
\* The invocations of producerDone and of consumerDone in the calls rs of
\* _run.
RECURSIVE SumPd(_)
SumPd(rs) == IF rs = <<>> THEN 0 ELSE Head(rs).pd + SumPd(Tail(rs))

RECURSIVE SumCd(_)
SumCd(rs) == IF rs = <<>> THEN 0 ELSE Head(rs).cd + SumCd(Tail(rs))

\* The step is an invocation of some producerDone / consumerDone.
ProducerDoneStep == SumPd(runs') = SumPd(runs) + 1

ConsumerDoneStep == SumCd(runs') = SumCd(runs) + 1

\* The step is a reset call with a truthy force.
ForcedResetStep == nForced' = nForced + 1

\* The pairs whose consumerDone was never invoked.
Unacknowledged == {k \in 1 .. Len(runs) : runs[k].cd = 0}

\* C4: an invocation of producerDone leaves _r and both queues as they are
\* and starts nothing, and the callback of the paired waiter has then been
\* invoked with the task's result; _r goes down only in an invocation of
\* consumerDone, by one, with the matching step re-run (or in a forced
\* reset); so without forced reset and double acknowledgement every pair
\* whose consumerDone was never invoked still counts in _r, whatever fill,
\* fetch, flush or reset() calls were made since.
C4_TwoPhase ==
  /\ [][ProducerDoneStep =>
          /\ _r' = _r /\ _t' = _t /\ _w' = _w /\ Len(runs') = Len(runs)
          /\ \A k \in 1 .. Len(runs) :
               (runs'[k].pd > runs[k].pd /\ runs[k].done # UndefinedWaiter) =>
                 [done |-> runs[k].done, val |-> Result(runs[k].task)]
                   \in calls']_vars
  /\ [][_r' < _r =>
          \/ ForcedResetStep
          \/ ConsumerDoneStep /\ _r' = _r - 1]_vars
  /\ [][ConsumerDoneStep =>
          /\ _r' = _r - 1 + (Len(runs') - Len(runs))
          /\ CanStart([Cur EXCEPT !.r = @ - 1], _c) =>
               Len(runs') = Len(runs) + 1]_vars
  /\ []((NoForce /\ SingleAck) => _r >= Cardinality(Unacknowledged))

\* A pair has called producerDone and its consumer has not acknowledged,
\* so that with concurrency 1 a later task and a later waiter stay queued,
\* a reset() and a later fill and fetch notwithstanding.
C4_Witness ==
  /\ _c = 1 /\ _r = 1
  /\ NoForce
  /\ nReset = 1
  /\ Len(runs) = 1 /\ runs[1].pd = 1 /\ runs[1].cd = 0
  /\ Len(_t) > 0 /\ Len(_w) > 0

(* ---- C5 ---- *)
\* C5: in no state are the task queue and the waiter queue both non-empty
\* while _r < _c, although no step starts more than one pair.
C5_EagerMatching ==
  /\ [](~ (Len(_t) > 0 /\ Len(_w) > 0 /\ Less(_r, _c)))
  /\ [][Len(runs') <= Len(runs) + 1]_vars

\* Both queues were non-empty at full concurrency and a consumerDone has
\* started the next pair, leaving a task and a waiter queued again.
C5_Witness ==
  /\ Len(runs) >= 2
  /\ runs[1].cd = 1
  /\ _r = _c
  /\ Len(_t) > 0 /\ Len(_w) > 0

(* ---- C6 ---- *)
\* C6: every call of _run has a waiter made by a fetch call, so that the
\* task functions invoked so far are at most as many as the fetch calls made
\* so far (those of flush included); before the first fetch call the tasks
\* of the constructor and of fill all sit in the task queue.
C6_Deferred ==
  /\ \A k \in 1 .. Len(runs) : runs[k].done.id \in 1 .. nFetch
  /\ Len(runs) <= nFetch
  /\ (nFetch = 0 /\ nReset = 0) => Len(_t) = nFill

\* Tasks of the constructor and of fill wait idle: no fetch call yet.
C6_Witness ==
  /\ nFetch = 0
  /\ Len(_t) >= 3
  /\ _r = 0

(* ---- C7 ---- *)
\* The loop of the flush call in progress has ended: flush is returning.
FlushReturning == frame.active /\ ~ LoopTest(frame.pending)

\* min(p, n) with n possibly Infinity.
Min(p, n) == IF n = Infinity \/ p < n THEN p ELSE n

\* The free slots of a pipe of concurrency c with r pairs running.
Room(c, r) == IF c = Infinity THEN Infinity ELSE c - r

\* The calls of _run made by the flush call in progress.
StartedByFlush == Len(runs) - frame.runs0

C9_FlushNoTasksNoOp ==
  (frame.active /\ frame.P = 0) =>
    /\ _t = <<>>
    /\ Len(_w) = frame.W
    /\ _r = frame.R
    /\ nFetch = frame.fetch0

(* ---- C10 ---- *)
\* The step is a reset call, without force.
ResetStep == nReset' = nReset + 1

PlainResetStep == ResetStep /\ nForced' = nForced

\* The step is a fill call.
FillStep == nFill' = nFill + 1

\* C10: reset() empties both queues and leaves _r as it is; no task and no
\* waiter removed by a reset ever appears in a call of _run or gets its
\* callback invoked; a running pair's producerDone invokes the callback of
\* its own waiter with its own task's result and its consumerDone takes
\* one off _r, also after a reset; and a fill made when both queues are
\* empty, as they are right after reset, starts nothing.
C10_PlainReset ==
  /\ [][PlainResetStep =>
          _t' = <<>> /\ _w' = <<>> /\ _r' = _r /\ runs' = runs
          /\ calls' = calls]_vars
  /\ [](/\ \A k \in 1 .. Len(runs) :
             /\ runs[k].task.id \notin dropped.tasks
             /\ runs[k].done.id \notin dropped.waiters
        /\ \A call \in calls : call.done.id \notin dropped.waiters)
  /\ [][\A k \in 1 .. Len(runs) :
          /\ runs'[k].pd > runs[k].pd =>
               [done |-> runs[k].done, val |-> Result(runs[k].task)] \in calls'
          /\ runs'[k].cd > runs[k].cd =>
               _r' = _r - 1 + (Len(runs') - Len(runs))]_vars
  /\ [][(FillStep /\ _w = <<>>) => (runs' = runs /\ _r' = _r)]_vars

\* A reset() removed a task and a waiter while a pair was running; the
\* pair has since delivered and released its slot, and a task filled
\* after the reset waits in the queue.
C10_Witness ==
  /\ nReset = 1 /\ nForced = 0
  /\ dropped.tasks # {} /\ dropped.waiters # {}
  /\ Len(runs) = 1 /\ runs[1].pd = 1 /\ runs[1].cd = 1
  /\ _r = 0
  /\ Len(_t) = 1 /\ _w = <<>>

(* ---- C11 ---- *)
\* The step is a fetch call (one made by flush included).
FetchStep == nFetch' = nFetch + 1

\* The step is a call of _run.
RunStep == Len(runs') = Len(runs) + 1

\* C11: a reset with a truthy force leaves _r = 0 and both queues empty,
\* whatever _r was and however many pairs have not had their consumerDone
\* invoked, so that _start's test _r < _c holds right after it; and a fill
\* or a fetch starts a pair exactly when the other queue holds an entry and
\* _r < _c, whatever the number of pairs still in flight: after the reset
\* _c further pairs can be started beside them.
C11_ForcedReset ==
  /\ [][ForcedResetStep =>
          /\ _r' = 0 /\ _t' = <<>> /\ _w' = <<>>
          /\ Less(_r', _c')
          /\ runs' = runs /\ calls' = calls]_vars
  /\ [][FillStep => (RunStep <=> (Len(_w) > 0 /\ Less(_r, _c)))]_vars
  /\ [][FetchStep => (RunStep <=> (Len(_t) > 0 /\ Less(_r, _c)))]_vars

\* On a pipe of concurrency 1 a pair was in flight when reset(true) was
\* called; a task filled and fetched afterwards was started at once, beside
\* the pair of before, which has still not called its consumerDone.
C11_Witness ==
  /\ _c = 1
  /\ nForced = 1 /\ nReset = 1
  /\ repeats = 0
  /\ Len(runs) = 2
  /\ runs[1].invoked /\ runs[1].cd = 0
  /\ runs[2].invoked /\ runs[2].cd = 0
  /\ _r = 1

(* ---- C12 ---- *)
\* C12: an invocation of consumerDone takes one off _r whatever _r is, 0
\* and less included (nothing is ignored or clamped), before _start adds
\* one for a pair it starts; so after a reset with a truthy force the
\* consumerDone of a pair started before it can leave _r below 0, and _r is
\* below 0 only after such a reset or after a pair was acknowledged twice.
C12_StaleCompletion ==
  /\ [][ConsumerDoneStep =>
          /\ _r' = _r - 1 + (Len(runs') - Len(runs))
          /\ (_r <= 0 /\ ~ RunStep) => _r' < 0]_vars
  /\ [](_r < 0 => (nForced > 0 \/ ~ SingleAck))

\* A pair was started, reset(true) was called, and the pair's consumerDone,
\* invoked once, has left _r at -1.
C12_Witness ==
  /\ nForced = 1 /\ nReset = 1
  /\ repeats = 0
  /\ Len(runs) = 1 /\ runs[1].cd = 1
  /\ _r = -1

(* ---- C13 ---- *)
\* What count returns for its four kinds of arguments.
CountReturns ==
  /\ CountValue(FALSE, FALSE) = Len(_t) + _r
  /\ CountValue(TRUE, FALSE) = Len(_w) + _r
  /\ CountValue(FALSE, TRUE) = Len(_t)
  /\ CountValue(TRUE, TRUE) = Len(_w)

\* C13 as the spec states it, for count(true): as long as no task was
\* supplied, by fill or otherwise, count(true) is the number of fetch calls
\* made.
C13_CountBeforeFill ==
  /\ CountReturns
  /\ nFill = 0 => CountValue(TRUE, FALSE) = nFetch

\* C13 amended: count returns the sums above in every state; as long as no
\* fetch, flush or reset call was made, count() is the number of tasks
\* supplied, those of the constructor and those of fill; and as long as no
\* task was supplied and no reset call was made, count(true) is the number
\* of fetch calls made.
C13_CountBeforeResetToo ==
  /\ CountReturns
  /\ (nFetch = 0 /\ nReset = 0) => CountValue(FALSE, FALSE) = nFill
  /\ (nFill = 0 /\ nReset = 0) => CountValue(TRUE, FALSE) = nFetch

\* count() = 3, count(true) = 1, count(false, true) = 2 and
\* count(true, true) = 0: one pair runs and two tasks wait.
C13_Witness ==
  /\ Idle
  /\ _r = 1 /\ Len(_t) = 2 /\ _w = <<>>
  /\ CountValue(FALSE, FALSE) = 3
  /\ CountValue(TRUE, FALSE) = 1
  /\ CountValue(FALSE, TRUE) = 2
  /\ CountValue(TRUE, TRUE) = 0

(* ---- C14 ---- *)
\* C14: every task that _run was called with had its function invoked,
\* the tasks supplied as an object without args included, and a pair whose
\* task function was not invoked holds no slot: _r counts at most the pairs
\* whose function was invoked and whose consumerDone was not (no forced
\* reset, no double acknowledgement).
C14_ArgsOptional ==
  /\ \A k \in 1 .. Len(runs) : runs[k].invoked
  /\ (NoForce /\ SingleAck) => _r <= Cardinality(InFlight)

(* ---- C15 ---- *)
\* C15: the fetch calls left to a flush in progress are never fewer than
\* none: its counter pending, which every iteration takes one off and which
\* ends the loop at 0 only, is never below 0, and the call has made at most
\* as many fetch calls as tasks were queued when it was called.
C15_FlushTerminates ==
  frame.active =>
    /\ frame.pending >= 0
    /\ nFetch - frame.fetch0 <= frame.P

(* ---- C16 ---- *)
\* C16: as long as no reset was forced and no pair's consumerDone was
\* invoked more than once, _r is the number of calls of _run whose
\* consumerDone was not invoked, and 0 <= _r <= _c.
C16_RunningExact ==
  (NoForce /\ SingleAck) =>
    /\ _r = Cardinality(Unacknowledged)
    /\ 0 <= _r
    /\ Less(_r, _c) \/ _r = _c

\* Of three pairs started on a pipe of concurrency 2 the first has been
\* acknowledged and the other two are counted.
C16_Witness ==
  /\ NoForce /\ SingleAck
  /\ _c = 2
  /\ Len(runs) = 3
  /\ runs[1].cd = 1 /\ runs[2].cd = 0 /\ runs[3].cd = 0
  /\ _r = 2

(* ---- C17 ---- *)
\* C17: _r <= _c in every reachable state, after forced resets,
\* completions of pairs started before them and repeated invocations of
\* continuations too.
C17_UpperBound ==
  Less(_r, _c) \/ _r = _c

\* On a pipe of concurrency 1, after a reset(true) and a continuation
\* invoked twice, _r is at _c while two pairs are in flight.
C17_Witness ==
  /\ _c = 1
  /\ nForced = 1
  /\ repeats = 1
  /\ _r = _c
  /\ Cardinality(InFlight) = 2

(* ---- C18 ---- *)
\* C18: a pair releases at most one slot: without forced reset, every call
\* of _run whose consumerDone was never invoked is still counted in _r,
\* however often the continuations of other pairs were invoked, and the
\* pairs in flight are at most _c.
C18_DoubleAcknowledgement ==
  NoForce =>
    /\ _r >= Cardinality(Unacknowledged)
    /\ Less(Cardinality(InFlight), _c) \/ Cardinality(InFlight) = _c

(* ---- C19 ---- *)
\* The tasks and the waiters of the pairs in the set ks of calls of _run.
TasksOf(ks) == {runs[k].task.id : k \in ks}

WaitersOf(ks) == {runs[k].done.id : k \in ks}

\* The pairs whose consumerDone was invoked.
Completed == {k \in 1 .. Len(runs) : runs[k].cd > 0}

\* No entry occurs twice in the queue q.
NoDuplicate(q) == Cardinality(Ids(q)) = Len(q)

\* The sets a, b and c are pairwise disjoint and make up 1 .. n.
Partition(a, b, c, n) ==
  /\ a \cup b \cup c = 1 .. n
  /\ a \cap b = {} /\ a \cap c = {} /\ b \cap c = {}

\* C19: without reset and with producerDone invoked at most once per pair,
\* no task and no waiter is given to _run twice (so no task function is
\* invoked twice and no fetch request has its callback invoked twice), and
\* every task supplied and every waiter made is in exactly one place: in
\* its queue, once; in a pair in flight, whose task function was invoked
\* and whose consumerDone was not; or in a completed pair.
C19_AtMostOnce ==
  (nReset = 0 /\ \A k \in 1 .. Len(runs) : runs[k].pd <= 1) =>
    /\ \A i \in 1 .. Len(runs), j \in 1 .. Len(runs) :
         i # j => /\ runs[i].task.id # runs[j].task.id
                  /\ runs[i].done.id # runs[j].done.id
    /\ \A call1 \in calls, call2 \in calls :
         call1.done.id = call2.done.id => call1 = call2
    /\ NoDuplicate(_t) /\ NoDuplicate(_w)
    /\ Partition(Ids(_t), TasksOf(InFlight), TasksOf(Completed), nFill)
    /\ Partition(Ids(_w), WaitersOf(InFlight), WaitersOf(Completed), nFetch)

\* The same when every task has its args.
C19_AtMostOnceWithArgs ==
  nNoArgs = 0 => C19_AtMostOnce

(* ---- C20 ---- *)
\* C20: without reset and with no continuation invoked twice, whenever a
\* task and a waiter are both queued some pair in flight has its
\* consumerDone still to come, whose invocation starts the queued pair: no
\* state leaves a task and a waiter queued with nothing left to free a
\* slot.
C20_Progress ==
  (nReset = 0 /\ repeats = 0 /\ Len(_t) > 0 /\ Len(_w) > 0) =>
    InFlight # {}

\* The same when every task has its args.
C20_ProgressWithArgs ==
  nNoArgs = 0 => C20_Progress

====
